---------------------------- MODULE Spec2Model ----------------------------
(***************************************************************************)
(* The NinjaTrader documentation crawlers of src/ninja/python:             *)
(*   - NinjaTraderDocsScraper (ninjatrader_docs_scraper.py): a recursive,  *)
(*     depth-capped crawl over requests + BeautifulSoup that appends each  *)
(*     extracted page to a Markdown file;                                  *)
(*   - NinjaTraderSeleniumScraper (ninjatrader-selenium-scraper.py): a     *)
(*     work-set crawl over a browser driver, capped by max_pages, that     *)
(*     accumulates Documents and writes them at the end of main().         *)
(* URLs are strings, and the string tests of the code (startswith,         *)
(* endswith, substring, urlparse) are computed on the characters.          *)
(***************************************************************************)
EXTENDS Integers, Sequences, FiniteSets, Bags, TLC

(***************************************************************************)
(* Bounds of the model.                                                    *)
(***************************************************************************)
\* the largest max_pages the user enters at the prompt of main()
MaxPages == 2
\* the largest max_depth scrape_recursive is started with
MaxDepth == 2
\* the largest number of <a href> elements on one page
MaxLinks == 2
\* the largest number of Documents handed to save_results on its own
MaxDocs == 2
\* the largest number of code-bearing elements on one page
MaxCodeElements == 3
\* the largest number of calls of scrape_all on one scraper instance
MaxRuns == 2

(***************************************************************************)
(* Strings (Python str operations used by the scrapers).                   *)
(***************************************************************************)
\* s[i:j] with 1-based inclusive positions
Slice(s, i, j) == SubSeq(s, i, j)

\* s[i:]
From(s, i) == SubSeq(s, i, Len(s))

\* s.startswith(p)
StartsWith(s, p) == Len(s) >= Len(p) /\ SubSeq(s, 1, Len(p)) = p

\* s.endswith(p)
EndsWith(s, p) == Len(s) >= Len(p) /\ SubSeq(s, Len(s) - Len(p) + 1, Len(s)) = p

\* the positions at which p occurs in s
Occurrences(s, p) == {i \in 1..(Len(s) - Len(p) + 1) : SubSeq(s, i, i + Len(p) - 1) = p}

\* p in s
Contains(s, p) == Occurrences(s, p) # {}

\* s.find(p) + 1: the first position of p in s, 0 when there is none
Find(s, p) ==
    LET occ == Occurrences(s, p)
    IN  IF occ = {} THEN 0 ELSE CHOOSE i \in occ : \A j \in occ : i <= j

\* s.rfind(p) + 1: the last position of p in s, 0 when there is none
RFind(s, p) ==
    LET occ == Occurrences(s, p)
    IN  IF occ = {} THEN 0 ELSE CHOOSE i \in occ : \A j \in occ : i >= j

\* the first position in s of any of the one-character strings of cs, Len(s)+1
\* when there is none
FindAny(s, cs) ==
    LET occ == {i \in 1..Len(s) : SubSeq(s, i, i) \in cs}
    IN  IF occ = {} THEN Len(s) + 1 ELSE CHOOSE i \in occ : \A j \in occ : i <= j

\* s.lower() on ASCII letters
UpperCase == "ABCDEFGHIJKLMNOPQRSTUVWXYZ"
LowerCase == "abcdefghijklmnopqrstuvwxyz"

LowerChar(c) ==
    IF Find(UpperCase, c) > 0
    THEN Slice(LowerCase, Find(UpperCase, c), Find(UpperCase, c))
    ELSE c

RECURSIVE Lower(_)
Lower(s) == IF Len(s) = 0 THEN "" ELSE LowerChar(Slice(s, 1, 1)) \o Lower(From(s, 2))

\* s.replace(old, new) for a one-character old
RECURSIVE Replace(_, _, _)
Replace(s, old, new) ==
    IF Len(s) = 0 THEN ""
    ELSE (IF Slice(s, 1, 1) = old THEN new ELSE Slice(s, 1, 1)) \o Replace(From(s, 2), old, new)

\* str(i) for a natural number, as the f-strings format it
RECURSIVE Str(_)
Str(i) == IF i < 10 THEN Slice("0123456789", i + 1, i + 1) ELSE Str(i \div 10) \o Str(i % 10)

\* the characters that occur in URLs, in code-point order
UrlChars ==
    "#%&+,-./0123456789:;=?@ABCDEFGHIJKLMNOPQRSTUVWXYZ_abcdefghijklmnopqrstuvwxyz~"

\* the rank of a one-character string in code-point order (ord(c) up to the
\* characters left out of UrlChars, which no URL of the model holds)
Ord(c) == Find(UrlChars, c)

\* a < b on str: lexicographic by code point
StrLess(a, b) ==
    LET n    == IF Len(a) < Len(b) THEN Len(a) ELSE Len(b)
        diff == {i \in 1..n : SubSeq(a, i, i) # SubSeq(b, i, i)}
    IN  IF diff = {}
        THEN Len(a) < Len(b)
        ELSE LET i == CHOOSE k \in diff : \A j \in diff : k <= j
             IN  Ord(SubSeq(a, i, i)) < Ord(SubSeq(b, i, i))

\* sorted(S) for a set of str
RECURSIVE Sorted(_)
Sorted(S) ==
    IF S = {} THEN <<>>
    ELSE LET m == CHOOSE x \in S : \A y \in S \ {x} : StrLess(x, y)
         IN  <<m>> \o Sorted(S \ {m})

\* the set of the elements of a sequence
Range(q) == {q[i] : i \in 1..Len(q)}

(***************************************************************************)
(* urllib.parse as the scrapers use it.                                    *)
(***************************************************************************)
\* urlparse(url): scheme, netloc, path, params, query, fragment, split off
\* one after the other as urlsplit and urlparse do.  The scheme is what
\* precedes the first ":" when no "/", "?" or "#" comes before it; the netloc
\* follows "//" up to the next "/", "?" or "#"; the fragment is cut at the
\* first "#", the query at the first "?", the params at the first ";" of the
\* last path segment.
SplitParams(scheme, netloc, rest, query, fragment, semi) ==
    [scheme |-> scheme, netloc |-> netloc,
     path |-> IF semi > 0 THEN Slice(rest, 1, semi - 1) ELSE rest,
     params |-> IF semi > 0 THEN From(rest, semi + 1) ELSE "",
     query |-> query, fragment |-> fragment]

LastSegmentSemi(rest, slash, semiRel) == IF semiRel > 0 THEN slash + semiRel ELSE 0

FindSemi(rest, slash) == LastSegmentSemi(rest, slash, Find(From(rest, slash + 1), ";"))

SplitPath(scheme, netloc, rest, query, fragment) ==
    SplitParams(scheme, netloc, rest, query, fragment, FindSemi(rest, RFind(rest, "/")))

SplitQueryAt(scheme, netloc, rest, fragment, qm) ==
    SplitPath(scheme, netloc,
              IF qm > 0 THEN Slice(rest, 1, qm - 1) ELSE rest,
              IF qm > 0 THEN From(rest, qm + 1) ELSE "",
              fragment)

SplitQuery(scheme, netloc, rest, fragment) ==
    SplitQueryAt(scheme, netloc, rest, fragment, Find(rest, "?"))

SplitFragmentAt(scheme, netloc, rest, hash) ==
    SplitQuery(scheme, netloc,
               IF hash > 0 THEN Slice(rest, 1, hash - 1) ELSE rest,
               IF hash > 0 THEN From(rest, hash + 1) ELSE "")

SplitFragment(scheme, netloc, rest) ==
    SplitFragmentAt(scheme, netloc, rest, Find(rest, "#"))

SplitNetlocAt(scheme, rest, locEnd) ==
    SplitFragment(scheme, Slice(rest, 1, locEnd - 1), From(rest, locEnd))

SplitNetloc(scheme, rest) ==
    IF StartsWith(rest, "//")
    THEN SplitNetlocAt(scheme, From(rest, 3), FindAny(From(rest, 3), {"/", "?", "#"}))
    ELSE SplitFragment(scheme, "", rest)

SplitScheme(url, colon, delim) ==
    IF colon > 1 /\ delim > colon
    THEN SplitNetloc(Slice(url, 1, colon - 1), From(url, colon + 1))
    ELSE SplitNetloc("", url)

UrlParse(url) == SplitScheme(url, Find(url, ":"), FindAny(url, {"/", "?", "#"}))

\* urlunparse(p)
UrlUnparse(p) ==
    (IF p.scheme # "" THEN p.scheme \o ":" ELSE "")
    \o (IF p.netloc # "" THEN "//" \o p.netloc ELSE "")
    \o p.path
    \o (IF p.params # "" THEN ";" \o p.params ELSE "")
    \o (IF p.query # "" THEN "?" \o p.query ELSE "")
    \o (IF p.fragment # "" THEN "#" \o p.fragment ELSE "")

\* the directory of a path: the path up to its last "/", or "/"
Directory(path, slash) == IF slash = 0 THEN "/" ELSE Slice(path, 1, slash)

\* urljoin of the parsed base b and the parsed reference u
JoinParsed(base, url, b, u) ==
    IF url = "" THEN base
    ELSE IF u.scheme # "" /\ u.scheme # b.scheme THEN url
    ELSE IF u.netloc # "" THEN UrlUnparse([u EXCEPT !.scheme = b.scheme])
    ELSE IF u.path = "" /\ u.params = ""
         THEN UrlUnparse([b EXCEPT !.query = IF u.query # "" THEN u.query ELSE b.query,
                                   !.fragment = u.fragment])
    ELSE IF StartsWith(u.path, "/")
         THEN UrlUnparse([u EXCEPT !.scheme = b.scheme, !.netloc = b.netloc])
    ELSE UrlUnparse([u EXCEPT !.scheme = b.scheme, !.netloc = b.netloc,
                              !.path = Directory(b.path, RFind(b.path, "/")) \o u.path])

\* urljoin(base, url) for an absolute base and a reference without "." or
\* ".." segments: a reference with a scheme or a netloc replaces the base, a
\* path starting with "/" replaces the base's path, any other path replaces
\* the base path's last segment, and an empty path keeps the base's path (and
\* its query, when the reference has none).
UrlJoin(base, url) == JoinParsed(base, url, UrlParse(base), UrlParse(url))

(***************************************************************************)
(* The configuration of the two scrapers.                                  *)
(***************************************************************************)
\* self.base_url, the seed of both scrapers
base_url == "https://developer.ninjatrader.com/docs/desktop"

\* NinjaTraderDocsScraper.domain
domain == "https://developer.ninjatrader.com"

\* the extensions find_documentation_links of the docs scraper skips
DocsExcluded == {".pdf", ".zip", ".exe", ".dmg", ".png", ".jpg", ".gif"}

\* the extensions find_documentation_links of the Selenium scraper skips
SeleniumExcluded == {".pdf", ".zip", ".exe", ".png", ".jpg"}

\* extracted text must be longer than this to count as content
MinContentLen == 100

\* scrape_recursive appends a section only when it is longer than this
MinSectionLen == 200

\* the characters extract_content adds around title, url and markdown:
\* "\n\n# ", "\n\n**Source:** ", "\n\n" and "\n\n---\n\n"
SectionOverhead == 27

(***************************************************************************)
(* The site: what a request can return.                                    *)
(***************************************************************************)
\* the href attributes a page of the site can hold
Hrefs ==
    { "https://developer.ninjatrader.com/docs/desktop",
      "/docs/desktop/a",
      "https://developer.ninjatrader.com/docs/desktop/a?v=2#s1",
      "https://developer.ninjatrader.com/docs/desktop/m.pdf#p2",
      "https://developer.ninjatrader.com.evil.example/docs/x",
      "https://evil.example/r?to=developer.ninjatrader.com/docs" }

\* the sets of hrefs one page can hold
LinkSets == {L \in SUBSET Hrefs : Cardinality(L) <= MaxLinks}

\* the hrefs of a site with a second sub-page, which the recursion of the
\* requests-based scraper can come to along paths of different lengths
DocsHrefs == Hrefs \cup {"/docs/desktop/b"}
DocsLinkSets == {L \in SUBSET DocsHrefs : Cardinality(L) <= MaxLinks}

\* the lengths of the text extracted from a page, around the threshold
TextLens == {99, 100, 101}

\* the lengths of a page's <title> text ("Untitled" has 8 characters)
TitleLens == {0, 8}

\* the lengths of the markdown html2text renders from the content block
MarkdownLens == {103, 200}

\* a page as BeautifulSoup parses it from the response text: its links, the
\* length of the text of its content block, of its title, of its markdown
HtmlPages == [links : LinkSets, textLen : TextLens, titleLen : TitleLens, mdLen : MarkdownLens]

\* the page of an empty response text
EmptyHtml == [links |-> {}, textLen |-> 99, titleLen |-> 8, mdLen |-> 103]

\* the pages of the site with the second sub-page: each has enough text for a
\* section
DeepSitePages == [links : DocsLinkSets, textLen : {101}, titleLen : {8}, mdLen : {200}]

\* a page as the browser renders it: its links and the length of content_text
DomPages == [links : LinkSets, textLen : TextLens]

\* the document the browser holds after driver.get raised: the part of the
\* page loaded before the timeout, or the browser's own error page (no link)
PartialPages == [links : LinkSets, textLen : {0}]

\* how a request ends: a page; a timeout (or any other network failure, which
\* raises in the same place); an HTTP error status, whose body is the
\* server's error page
FetchOutcomes == {"ok", "timeout", "http_error"}

\* the outcomes that are fetch failures
FetchFailures == {"timeout", "http_error"}

(***************************************************************************)
(* The URL functions of the scrapers, and their values on the URLs of the  *)
(* site.                                                                   *)
(***************************************************************************)
\* scheme://netloc/path/ of a parsed URL, a slash added at its end
SchemeNetlocPathSlash(parsed) ==
    parsed.scheme \o "://" \o parsed.netloc \o parsed.path \o "/"

\* scheme://netloc/path of a parsed URL
SchemeNetlocPath(parsed) == parsed.scheme \o "://" \o parsed.netloc \o parsed.path

\* clean_url(url)
CleanUrl(url) == SchemeNetlocPath(UrlParse(url))

\* the filter of find_documentation_links on one cleaned absolute URL
DocsIsDocLink(absolute_url) ==
    /\ StartsWith(absolute_url, domain)
    /\ Contains(absolute_url, "/docs/")
    /\ ~ \E ext \in DocsExcluded : EndsWith(absolute_url, ext)

\* the filter of find_documentation_links on one absolute URL
SeleniumIsDocLink(absolute_url) ==
    /\ Contains(absolute_url, "developer.ninjatrader.com/docs")
    /\ ~ \E ext \in SeleniumExcluded : EndsWith(absolute_url, ext)

\* one round of link discovery from the URLs of U, with and without clean_url
Discover(U) ==
    U \cup {UrlJoin(b, h) : b \in U, h \in DocsHrefs}
      \cup {CleanUrl(UrlJoin(b, h)) : b \in U, h \in DocsHrefs}

\* every URL a crawl of the site can come across: the hrefs of the site reach
\* nothing new after two rounds
Universe == Discover(Discover({base_url}))

\* urljoin, clean_url and the two link filters, tabulated over the site
urljoin == [p \in Universe \X DocsHrefs |-> UrlJoin(p[1], p[2])] @@ <<>>

clean_url == [u \in Universe |-> CleanUrl(u)] @@ <<>>

docsIsDocLink == [u \in Universe |-> DocsIsDocLink(u)] @@ <<>>

seleniumIsDocLink == [u \in Universe |-> SeleniumIsDocLink(u)] @@ <<>>

\* the rank of each URL in sorted(Universe)
rank == [u \in Universe |-> Cardinality({v \in Universe : StrLess(v, u)})] @@ <<>>

\* sorted(S) for a set of URLs
RECURSIVE SortedUrls(_)
SortedUrls(S) ==
    IF S = {} THEN <<>>
    ELSE LET m == CHOOSE x \in S : \A y \in S : rank[x] <= rank[y]
         IN  <<m>> \o SortedUrls(S \ {m})

(***************************************************************************)
(* State.                                                                  *)
(***************************************************************************)
VARIABLES
    prog,           \* which script runs: "docs" or "selenium"
    pc,             \* where main() is: "start", "running", "scraped", "save_failed",
                    \* "done"
    visited_urls,   \* self.visited_urls
    \* NinjaTraderSeleniumScraper
    max_pages,      \* the max_pages main() passes to scrape_site
    urls_to_visit,  \* the local work set of scrape_site
    failed_urls,    \* self.failed_urls
    content_data,   \* self.content_data, the Documents in order
    driver,         \* self.driver: "none", "open" or "closed"
    json_file,      \* ninjatrader_docs.json
    md_file,        \* ninjatrader_docs.md of save_results
    failed_file,    \* ninjatrader_failed_urls.txt
    save,           \* the last call of save_results: whether there was one, and
                    \* the artifact whose write raised, "none" when none did
    \* NinjaTraderDocsScraper
    max_depth,      \* the max_depth of scrape_recursive
    call,           \* the call of scrape_recursive about to run
    stack,          \* the frames of scrape_recursive inside their for loop
    output_file,    \* the Markdown file scrape_all and scrape_recursive write
    runs,           \* the number of calls of scrape_all on the instance so far
    \* the run as seen from outside
    processed,      \* bag: how often each URL passed the visited check
    requests,       \* bag: how often each URL was requested from the network
    last,           \* the last URL that passed the visited check, how its fetch ended,
                    \* whether a Document was made of it, and, when the fetch succeeded and the extraction gave no
                    \* Document, the links of its page that are neither filtered
                    \* out nor visited
    interrupted,    \* whether the user has pressed Ctrl-C
    slept,          \* whether time.sleep(1) has run since the last request
    site,           \* what the requests-based scraper has seen of the site: for
                    \* each URL it processed, whether the fetch succeeded and the
                    \* links of the page that pass the link filter
    \* clean_url called on its own
    raw_urls,       \* a pair of URLs handed to clean_url, <<>> when there is none
    cleaned_urls,   \* what clean_url returned for them, <<>> before the calls
    recleaned_urls, \* what clean_url returned for the cleaned URLs, <<>> before
    \* the extraction called on its own
    markup,         \* the elements of the page handed to the extraction
    extracted,      \* what the extraction made of it
    \* the Markdown report of save_results on its own
    documents,      \* the content_data handed to save_results
    report,         \* what save_results wrote to ninjatrader_docs.md
    \* the collection of the code examples on its own
    code_elements,  \* the lengths of the trimmed texts of the pre/code elements
                    \* of the page, in document order
    code_examples   \* the list the scraper made of them

seleniumVars == <<max_pages, urls_to_visit, failed_urls, content_data, driver,
                  json_file, md_file, failed_file, save>>
docsVars == <<max_depth, call, stack, output_file, runs>>
historyVars == <<processed, requests, last, interrupted, slept, site>>
normVars == <<raw_urls, cleaned_urls, recleaned_urls>>
extractVars == <<markup, extracted>>
reportVars == <<documents, report>>
codeVars == <<code_elements, code_examples>>
pureVars == <<normVars, extractVars, reportVars, codeVars>>
vars == <<prog, pc, visited_urls, seleniumVars, docsVars, historyVars, pureVars>>

\* the links among the hrefs of the page at url that the link filter of the
\* running scraper accepts and that are not visited
SeleniumEligible(url, hrefs) ==
    {a \in {urljoin[<<url, h>>] : h \in hrefs} : seleniumIsDocLink[a]}

EligibleLinks(url, hrefs, visited) ==
    IF prog = "selenium"
    THEN SeleniumEligible(url, hrefs) \ visited
    ELSE {a \in {clean_url[urljoin[<<url, h>>]] : h \in hrefs} :
             docsIsDocLink[a] /\ a \notin visited}

NoCall == [active |-> FALSE, url |-> "", depth |-> 0]
NoFile == [exists |-> FALSE, docs |-> <<>>]
NoList == [exists |-> FALSE, urls |-> <<>>]
NoSave == [attempted |-> FALSE, failing |-> "none"]
NoLast == [url |-> "", outcome |-> "none", document |-> FALSE, emptyLinks |-> {}]

\* an element of a page the extraction looks for: absent, or present with the
\* length of its text once the boilerplate inside it has been removed
Absent == [present |-> FALSE, textLen |-> 0]
NoMarkup == [main |-> Absent, article |-> Absent, div |-> Absent, body |-> Absent]
NoExtract == [done |-> FALSE, source |-> "none", textLen |-> 0, section |-> FALSE,
              document |-> FALSE]
NoReport == [written |-> FALSE, total |-> 0, toc |-> <<>>, sections |-> <<>>]
NoExamples == [by |-> "none", items |-> <<>>]

CrawlInit ==
    /\ prog \in {"docs", "selenium"}
    /\ pc = "start"
    /\ visited_urls = {}
    /\ max_pages \in (IF prog = "selenium" THEN 0..MaxPages ELSE {0})
    /\ urls_to_visit = {}
    /\ failed_urls = {}
    /\ content_data = <<>>
    /\ driver = "none"
    /\ json_file = NoFile
    /\ md_file = NoFile
    /\ failed_file = NoList
    /\ save = NoSave
    /\ max_depth \in (IF prog = "docs" THEN 0..MaxDepth ELSE {0})
    /\ call = NoCall
    /\ stack = <<>>
    /\ output_file = <<>>
    /\ runs = 0
    /\ processed = EmptyBag
    /\ requests = EmptyBag
    /\ last = NoLast
    /\ interrupted = FALSE
    /\ slept = FALSE
    /\ site = {}

Init ==
    /\ CrawlInit
    /\ raw_urls = <<>>
    /\ cleaned_urls = <<>>
    /\ recleaned_urls = <<>>
    /\ markup = NoMarkup
    /\ extracted = NoExtract
    /\ documents = <<>>
    /\ report = NoReport
    /\ code_elements = <<>>
    /\ code_examples = NoExamples

(***************************************************************************)
(* NinjaTraderSeleniumScraper.                                             *)
(***************************************************************************)
\* a Document of content_data (title, code_examples and scraped_at do not
\* bear on the crawl)
Document(url, page) == [url |-> url, textLen |-> page.textLen]

\* driver.get(url) raises on a timeout or network failure; an HTTP error
\* status loads the server's error page like any other page
DriverGetRaises(outcome) == outcome = "timeout"

\* an extract_page_content that returns what it has when driver.get raises
ExtractPageContentKeepingPartial(url, outcome, page) ==
    IF DriverGetRaises(outcome)
    THEN [some |-> TRUE, doc |-> Document(url, page), failed |-> TRUE]
    ELSE [some |-> page.textLen > MinContentLen, doc |-> Document(url, page), failed |-> FALSE]

\* extract_page_content(url): the Document, or None
\*   [doc |-> the Document or none, failed |-> whether the url joins failed_urls]
ExtractPageContent(url, outcome, page) ==
    IF DriverGetRaises(outcome)
    THEN [some |-> FALSE, doc |-> Document(url, page), failed |-> TRUE]
    ELSE [some |-> page.textLen > MinContentLen, doc |-> Document(url, page), failed |-> FALSE]

\* find_documentation_links(): the links of the document the browser holds
SeleniumFindLinks(current_url, page, visited) ==
    {a \in {urljoin[<<current_url, h>>] : h \in page.links} :
        seleniumIsDocLink[a] /\ a \notin visited}

\* the documents the browser can hold after driver.get(url) ended in outcome
LoadedPages(outcome) == IF DriverGetRaises(outcome) THEN PartialPages ELSE DomPages

\* whether the iteration runs code inside a bare "except:" block: the selector
\* loop of extract_page_content once driver.get has returned, the loop over
\* the link elements of find_documentation_links when there are any
InBareExcept(outcome, page) == ~DriverGetRaises(outcome) \/ page.links # {}

\* a loop condition that lets the loop run for the first page only
LoopConditionFirstPageOnly == urls_to_visit # {} /\ visited_urls = {} /\ max_pages > 0

\* the loop condition with the page cap off by one
LoopConditionOffByOne == urls_to_visit # {} /\ Cardinality(visited_urls) <= max_pages

\* the condition of the while loop of scrape_site
LoopCondition == urls_to_visit # {} /\ Cardinality(visited_urls) < max_pages

\* the artifacts of save_results, in the order it writes them
Artifacts == {"json", "md", "failed_urls"}

\* the write of save_results that raises (the file cannot be opened or
\* written), "none" when every write succeeds
WriteFailures == {"none"} \cup Artifacts

\* the failed-URL list is written, and can fail, only when there is a failed
\* URL
CanFail(failing) == failing = "failed_urls" => failed_urls # {}

\* save_results(): the JSON dump, then the Markdown report, then the
\* failed-URL list when there is a failed URL; a write that raises ends the
\* call
SaveResults(failing) ==
    /\ json_file' = IF failing = "json" THEN json_file
                    ELSE [exists |-> TRUE, docs |-> content_data]
    /\ md_file' = IF failing \in {"json", "md"} THEN md_file
                  ELSE [exists |-> TRUE, docs |-> content_data]
    /\ failed_file' = IF failing = "none" /\ failed_urls # {}
                      THEN [exists |-> TRUE, urls |-> SortedUrls(failed_urls)]
                      ELSE failed_file
    /\ save' = [attempted |-> TRUE, failing |-> failing]

\* main() calls scrape_site, which starts the driver: on success the loop
\* begins with the base URL; on failure the exception reaches main(), which
\* has no content to save
StartDriver ==
    /\ prog = "selenium" /\ pc = "start"
    /\ \E ok \in BOOLEAN :
         IF ok
         THEN /\ driver' = "open"
              /\ urls_to_visit' = {base_url}
              /\ pc' = "running"
         ELSE /\ pc' = "done"
              /\ UNCHANGED <<driver, urls_to_visit>>
    /\ UNCHANGED <<prog, visited_urls, max_pages, failed_urls, content_data,
                   json_file, md_file, failed_file, save, docsVars, historyVars, pureVars>>

\* what the body of the while loop of scrape_site makes of the document the
\* browser holds after driver.get(url) ended in outcome, the visited set left
\* aside: whether the URL joins failed_urls, the Documents appended (one or
\* none), the links found, the eligible links of the page, and whether code
\* inside a bare "except:" ran
Iteration(url, outcome, page) ==
    [failed       |-> ExtractPageContent(url, outcome, page).failed,
     documents    |-> IF ExtractPageContent(url, outcome, page).some
                      THEN <<ExtractPageContent(url, outcome, page).doc>>
                      ELSE <<>>,
     new_links    |-> SeleniumFindLinks(url, page, {}),
     eligible     |-> SeleniumEligible(url, page.links),
     inBareExcept |-> InBareExcept(outcome, page)]

\* the iterations each URL of the site can give, by outcome of driver.get
iterations ==
    [p \in Universe \X FetchOutcomes |->
        {Iteration(p[1], p[2], page) : page \in LoadedPages(p[2])}] @@ <<>>

\* a scrape_site that closes the driver after the loop instead of in a
\* finally clause
DriverAfterLoopOnly(exit) == IF exit = "return" THEN "closed" ELSE driver

\* the finally clause of scrape_site: close_driver() runs however the try
\* block is left, by the end of the loop ("return") or by an exception
\* ("interrupt"), and quits the driver
DriverAfter(exit) == "closed"

\* one iteration of the while loop of scrape_site.  sigint: a Ctrl-C arrives
\* while a find_elements call inside one of the bare "except:" blocks runs,
\* which catches the KeyboardInterrupt and goes on.
SiteIteration ==
    /\ prog = "selenium" /\ pc = "running"
    /\ LoopCondition
    /\ \E url \in urls_to_visit, outcome \in FetchOutcomes, sigint \in BOOLEAN :
         LET rest == urls_to_visit \ {url}
         IN  IF url \in visited_urls
             THEN /\ urls_to_visit' = rest
                  /\ UNCHANGED <<visited_urls, failed_urls, content_data, historyVars>>
             ELSE \E it \in iterations[<<url, outcome>>] :
                      /\ sigint => /\ ~interrupted
                                   /\ it.inBareExcept
                      /\ visited_urls' = visited_urls \cup {url}
                      /\ failed_urls' = IF it.failed THEN failed_urls \cup {url}
                                        ELSE failed_urls
                      /\ content_data' = content_data \o it.documents
                      /\ urls_to_visit' = rest \cup (it.new_links \ (visited_urls \cup {url}))
                      /\ processed' = processed (+) SetToBag({url})
                      /\ requests' = requests (+) SetToBag({url})
                      /\ last' = [url |-> url, outcome |-> outcome,
                                  document |-> it.documents # <<>>,
                                  emptyLinks |-> IF ~it.failed /\ it.documents = <<>>
                                                 THEN it.eligible \ (visited_urls \cup {url})
                                                 ELSE {}]
                      /\ interrupted' = (interrupted \/ sigint)
                      /\ slept' = TRUE
                      /\ UNCHANGED site
    /\ UNCHANGED <<prog, pc, max_pages, driver, json_file, md_file, failed_file, save, docsVars, pureVars>>

\* the while loop ends: the finally clause closes the driver and scrape_site
\* returns to main()
SiteReturn ==
    /\ prog = "selenium" /\ pc = "running"
    /\ ~LoopCondition
    /\ driver' = DriverAfter("return")
    /\ pc' = "scraped"
    /\ UNCHANGED <<prog, visited_urls, max_pages, urls_to_visit, failed_urls, content_data,
                   json_file, md_file, failed_file, save, docsVars, historyVars, pureVars>>

\* main() saves the results after scrape_site has returned; an exception of
\* save_results reaches the "except Exception" of main()
MainSave ==
    /\ prog = "selenium" /\ pc = "scraped"
    /\ \E failing \in WriteFailures :
         /\ CanFail(failing)
         /\ SaveResults(failing)
         /\ pc' = IF failing = "none" THEN "done" ELSE "save_failed"
    /\ UNCHANGED <<prog, visited_urls, max_pages, urls_to_visit, failed_urls, content_data,
                   driver, docsVars, historyVars, pureVars>>

\* the "except Exception" of main(): it calls save_results again when there
\* is content; an exception of that call leaves main()
MainSaveAgain ==
    /\ prog = "selenium" /\ pc = "save_failed"
    /\ IF content_data # <<>>
       THEN \E failing \in WriteFailures : CanFail(failing) /\ SaveResults(failing)
       ELSE UNCHANGED <<json_file, md_file, failed_file, save>>
    /\ pc' = "done"
    /\ UNCHANGED <<prog, visited_urls, max_pages, urls_to_visit, failed_urls, content_data,
                   driver, docsVars, historyVars, pureVars>>

\* a Ctrl-C outside the bare "except:" blocks (in time.sleep, in driver.get):
\* the KeyboardInterrupt leaves scrape_site through its finally clause and
\* reaches main(), which saves the partial results when there are any
SiteInterrupt ==
    /\ prog = "selenium" /\ pc = "running"
    /\ ~interrupted
    /\ interrupted' = TRUE
    /\ driver' = DriverAfter("interrupt")
    /\ IF content_data # <<>>
       THEN \E failing \in WriteFailures : CanFail(failing) /\ SaveResults(failing)
       ELSE UNCHANGED <<json_file, md_file, failed_file, save>>
    /\ pc' = "done"
    /\ UNCHANGED <<prog, visited_urls, max_pages, urls_to_visit, failed_urls, content_data,
                   docsVars, processed, requests, last, slept, site, pureVars>>

(***************************************************************************)
(* NinjaTraderDocsScraper.                                                 *)
(***************************************************************************)
\* get_page_content(url): whether it returns the response text; it returns
\* None on any exception (timeout, connection error, raise_for_status on an
\* HTTP error status)
GetPageContent(outcome) == outcome = "ok"

\* a find_documentation_links that looks for links only on pages with enough
\* text for a section
DocsFindLinksIfContent(page, current_url, visited) ==
    IF page.textLen > MinContentLen
    THEN {a \in {clean_url[urljoin[<<current_url, h>>]] : h \in page.links} :
             docsIsDocLink[a] /\ a \notin visited}
    ELSE {}

\* find_documentation_links(html, current_url)
DocsFindLinks(page, current_url, visited) ==
    {a \in {clean_url[urljoin[<<current_url, h>>]] : h \in page.links} :
        docsIsDocLink[a] /\ a \notin visited}

\* len(extract_content(html, url)): the section is "" unless the text is
\* longer than the threshold
SectionLen(page, url) ==
    IF page.textLen > MinContentLen
    THEN SectionOverhead + page.titleLen + Len(url) + page.mdLen
    ELSE 0

\* the pages get_page_content can hand to extract_content: any page of the
\* site when the request succeeded; nothing is parsed when it returned None
ResponsePages(outcome, pages) == IF outcome = "ok" THEN pages ELSE {EmptyHtml}

\* the stack when any failed fetch unwinds the whole recursion
StackAfterUnwinding(html, frame) == IF html THEN <<frame>> \o stack ELSE <<>>

\* the frames after the fetch: "if not html: return" ends this call alone and
\* leaves the callers' loops as they are; otherwise the call enters its own
\* for loop
StackAfter(html, frame) == IF html THEN <<frame>> \o stack ELSE stack

\* a write of the section that opens the output file with mode 'w'
WriteSectionTruncating(file, url) == <<url>>

\* with open(output_file, 'a') ... f.write(content): the section of the page
\* is appended to the output file, which is closed before the call goes on
WriteSection(file, url) == Append(file, url)

\* a depth check that lets one level more through
TooDeepOffByOne(current_depth) == current_depth > max_depth + 1

\* "if current_depth > max_depth: return"
TooDeep(current_depth) == current_depth > max_depth

\* a visited check that never finds the URL
AlreadyVisitedNever(url) == FALSE

\* the visited check of scrape_recursive
AlreadyVisited(url) == url \in visited_urls

\* scrape_all(): the header is written over the output file and the
\* recursion starts at the base URL with depth 0; self.visited_urls is left
\* as it is
StartScrape ==
    /\ output_file' = <<"header">>
    /\ call' = [active |-> TRUE, url |-> base_url, depth |-> 0]
    /\ pc' = "running"
    /\ runs' = runs + 1
    /\ UNCHANGED <<prog, visited_urls, seleniumVars, max_depth, stack, historyVars, pureVars>>

\* main() calls scrape_all on a new scraper
ScrapeAll ==
    /\ prog = "docs" /\ pc = "start"
    /\ StartScrape

\* scrape_all is called again on a scraper whose scrape_all has returned
ScrapeAllAgain ==
    /\ prog = "docs" /\ pc = "done"
    /\ runs < MaxRuns
    /\ StartScrape

\* scrape_recursive(url, output_file, max_depth, current_depth) up to its for
\* loop: the depth and visited checks, the fetch (two requests for the first
\* page, which analyze_page_structure fetches too), the extraction and the
\* append to the output file, the discovery of the links.  outcomes: how the
\* requests of the run can end; pages: the pages of the site; observed:
\* whether what is seen of the site is recorded
ScrapeRecursiveOn(outcomes, pages, observed) ==
    /\ prog = "docs" /\ pc = "running"
    /\ call.active
    /\ call' = NoCall
    /\ LET url == clean_url[call.url]
       IN  IF TooDeep(call.depth) \/ AlreadyVisited(url)
           THEN UNCHANGED <<visited_urls, stack, output_file, historyVars>>
           ELSE \E outcome \in outcomes :
                \E page \in ResponsePages(outcome, pages) :
                  LET visited == visited_urls \cup {url}
                      first   == Cardinality(visited) = 1
                      html    == GetPageContent(outcome)
                      links   == DocsFindLinks(page, url, visited)
                  IN  /\ visited_urls' = visited
                      /\ processed' = processed (+) SetToBag({url})
                      /\ requests' = requests (+) SetToBag({url})
                                              (+) (IF first THEN SetToBag({url}) ELSE EmptyBag)
                      /\ last' = [url |-> url, outcome |-> outcome,
                                  document |-> html /\ SectionLen(page, url) > MinSectionLen,
                                  emptyLinks |-> IF html /\ ~(SectionLen(page, url) > MinSectionLen)
                                                 THEN EligibleLinks(url, page.links, visited)
                                                 ELSE {}]
                      /\ output_file' = IF html /\ SectionLen(page, url) > MinSectionLen
                                        THEN WriteSection(output_file, url)
                                        ELSE output_file
                      /\ stack' = StackAfter(html, [links |-> SortedUrls(links),
                                                    depth |-> call.depth])
                      /\ slept' = FALSE
                      /\ site' = IF observed
                                 THEN site \cup {[url |-> url, ok |-> html,
                                                  links |-> DocsFindLinks(page, url, {})]}
                                 ELSE site
                      /\ UNCHANGED interrupted
    /\ UNCHANGED <<prog, pc, seleniumVars, max_depth, runs, pureVars>>

ScrapeRecursive == ScrapeRecursiveOn(FetchOutcomes, HtmlPages, FALSE)

\* the for loop of the innermost frame takes its next link: it sleeps, then
\* calls scrape_recursive one level deeper
RecurseNext ==
    /\ prog = "docs" /\ pc = "running"
    /\ ~call.active
    /\ stack # <<>> /\ Head(stack).links # <<>>
    /\ call' = [active |-> TRUE, url |-> Head(Head(stack).links),
                depth |-> Head(stack).depth + 1]
    /\ stack' = <<[Head(stack) EXCEPT !.links = Tail(@)]>> \o Tail(stack)
    /\ slept' = TRUE
    /\ UNCHANGED <<prog, pc, visited_urls, seleniumVars, max_depth, output_file, runs,
                   processed, requests, last, interrupted, site, pureVars>>

\* the for loop of the innermost frame is exhausted: the call returns
RecurseReturn ==
    /\ prog = "docs" /\ pc = "running"
    /\ ~call.active
    /\ stack # <<>> /\ Head(stack).links = <<>>
    /\ stack' = Tail(stack)
    /\ UNCHANGED <<prog, pc, visited_urls, seleniumVars, max_depth, call, output_file,
                   runs, historyVars, pureVars>>

\* the outermost scrape_recursive has returned to scrape_all
ScrapeAllReturn ==
    /\ prog = "docs" /\ pc = "running"
    /\ ~call.active /\ stack = <<>>
    /\ pc' = "done"
    /\ UNCHANGED <<prog, visited_urls, seleniumVars, docsVars, historyVars, pureVars>>

(***************************************************************************)
(* The specification.                                                      *)
(***************************************************************************)
Next ==
    \/ StartDriver
    \/ SiteIteration
    \/ SiteReturn
    \/ MainSave
    \/ MainSaveAgain
    \/ SiteInterrupt
    \/ ScrapeAll
    \/ ScrapeRecursive
    \/ RecurseNext
    \/ RecurseReturn
    \/ ScrapeAllReturn

Spec == Init /\ [][Next]_vars

\* the loops are sequential code whose every request is bounded by a timeout
\* (requests.get(timeout=30), the driver's page-load timeout): a step that can
\* be taken is taken.  A Ctrl-C is up to the user.
CrawlStep ==
    \/ StartDriver
    \/ SiteIteration
    \/ SiteReturn
    \/ MainSave
    \/ MainSaveAgain
    \/ ScrapeAll
    \/ ScrapeRecursive
    \/ RecurseNext
    \/ RecurseReturn
    \/ ScrapeAllReturn

FairSpec == Spec /\ WF_vars(CrawlStep)

(***************************************************************************)
(* The requests-based scraper on the site with the second sub-page, every  *)
(* request succeeding, what it sees of the site recorded.                  *)
(***************************************************************************)
DeepInit == Init /\ prog = "docs"

ScrapeRecursiveDeep == ScrapeRecursiveOn({"ok"}, DeepSitePages, TRUE)

DeepNext ==
    \/ ScrapeAll
    \/ ScrapeRecursiveDeep
    \/ RecurseNext
    \/ RecurseReturn
    \/ ScrapeAllReturn

DeepSpec == DeepInit /\ [][DeepNext]_vars

(***************************************************************************)
(* The requests-based scraper as a library: scrape_all can be called again *)
(* on the same instance.                                                   *)
(***************************************************************************)
RerunInit == Init /\ prog = "docs"

RerunNext ==
    \/ ScrapeAll
    \/ ScrapeRecursive
    \/ RecurseNext
    \/ RecurseReturn
    \/ ScrapeAllReturn
    \/ ScrapeAllAgain

RerunSpec == RerunInit /\ [][RerunNext]_vars

(***************************************************************************)
(* clean_url on its own: a pair of URLs is handed to it.                   *)
(***************************************************************************)
\* the URLs handed to clean_url: two pages, each with and without a query
\* and a fragment
UrlInputs ==
    {page \o query \o fragment :
        page \in {base_url, base_url \o "/a"},
        query \in {"", "?v=2", "?v=3"},
        fragment \in {"", "#section1", "#section2"}}

NormInit ==
    /\ CrawlInit
    /\ prog = "docs" /\ max_depth = 0
    /\ raw_urls \in UrlInputs \X UrlInputs
    /\ cleaned_urls = <<>>
    /\ recleaned_urls = <<>>
    /\ markup = NoMarkup
    /\ extracted = NoExtract
    /\ documents = <<>>
    /\ report = NoReport
    /\ code_elements = <<>>
    /\ code_examples = NoExamples

\* clean_url(url), once for each URL of the pair
CleanUrls ==
    /\ raw_urls # <<>> /\ cleaned_urls = <<>>
    /\ cleaned_urls' = <<CleanUrl(raw_urls[1]), CleanUrl(raw_urls[2])>>
    /\ UNCHANGED <<prog, pc, visited_urls, seleniumVars, docsVars, historyVars, raw_urls,
                   recleaned_urls, extractVars, reportVars, codeVars>>

\* clean_url on what clean_url returned: scrape_recursive cleans the links
\* find_documentation_links has cleaned already
CleanAgain ==
    /\ cleaned_urls # <<>> /\ recleaned_urls = <<>>
    /\ recleaned_urls' = <<CleanUrl(cleaned_urls[1]), CleanUrl(cleaned_urls[2])>>
    /\ UNCHANGED <<prog, pc, visited_urls, seleniumVars, docsVars, historyVars, raw_urls,
                   cleaned_urls, extractVars, reportVars, codeVars>>

NormNext == CleanUrls \/ CleanAgain

NormSpec == NormInit /\ [][NormNext]_vars

(***************************************************************************)
(* The extraction on its own: the elements of one page are handed to       *)
(* extract_content, or to the extraction of extract_page_content.          *)
(***************************************************************************)
Blocks == {Absent} \cup {[present |-> TRUE, textLen |-> n] : n \in TextLens}

\* a page as the extraction sees it: the elements matching the first two
\* semantic selectors ("main", "article"), the div with the most text, the
\* body without its navigation, which holds the text of the others
Markups ==
    {m \in [main : Blocks, article : Blocks, div : Blocks, body : Blocks] :
        m.body.present =>
            \A inner \in {m.main, m.article, m.div} : inner.textLen <= m.body.textLen}

\* the block of the page that a stage of the extraction chose
BlockOf(m, source) == IF source = "none" THEN Absent ELSE m[source]

\* Strategy 1 of extract_content: the loop over content_selectors stops at the
\* first selector that matches an element
FirstSelectorMatch(m) ==
    IF m.main.present THEN "main"
    ELSE IF m.article.present THEN "article"
    ELSE "none"

\* the element extract_content takes the text of: the first selector match;
\* when there is none the largest div; when there is none the body
DocsContentSource(m) ==
    IF FirstSelectorMatch(m) # "none" THEN FirstSelectorMatch(m)
    ELSE IF m.div.present THEN "div"
    ELSE IF m.body.present THEN "body"
    ELSE "none"

\* the page extract_content makes its section of
ExtractedPage(m, titleLen, mdLen) ==
    [links |-> {}, textLen |-> BlockOf(m, DocsContentSource(m)).textLen,
     titleLen |-> titleLen, mdLen |-> mdLen]

\* extract_content(html, url): whether it returns a section, and whether
\* scrape_recursive saves the section
DocsExtract(m, url, titleLen, mdLen) ==
    [done     |-> TRUE,
     source   |-> DocsContentSource(m),
     textLen  |-> BlockOf(m, DocsContentSource(m)).textLen,
     section  |-> SectionLen(ExtractedPage(m, titleLen, mdLen), url) > 0,
     document |-> SectionLen(ExtractedPage(m, titleLen, mdLen), url) > MinSectionLen]

\* Strategy 1 of extract_page_content: the longest text among the elements
\* the selectors match, the earlier one on a tie
LongestContainer(m) ==
    IF m.main.present /\ (~m.article.present \/ m.article.textLen <= m.main.textLen)
    THEN "main"
    ELSE IF m.article.present THEN "article"
    ELSE "none"

\* the element extract_page_content takes the text of: the longest container;
\* the body when that text is shorter than the threshold
SeleniumContentSource(m) ==
    IF BlockOf(m, LongestContainer(m)).textLen < MinContentLen /\ m.body.present
    THEN "body"
    ELSE LongestContainer(m)

\* the extraction of extract_page_content once driver.get has returned
SeleniumExtract(m) ==
    [done     |-> TRUE,
     source   |-> SeleniumContentSource(m),
     textLen  |-> BlockOf(m, SeleniumContentSource(m)).textLen,
     section  |-> BlockOf(m, SeleniumContentSource(m)).textLen > MinContentLen,
     document |-> BlockOf(m, SeleniumContentSource(m)).textLen > MinContentLen]

ExtractInit ==
    /\ CrawlInit
    /\ max_pages = 0 /\ max_depth = 0
    /\ raw_urls = <<>> /\ cleaned_urls = <<>> /\ recleaned_urls = <<>>
    /\ markup \in Markups
    /\ extracted = NoExtract
    /\ documents = <<>>
    /\ report = NoReport
    /\ code_elements = <<>>
    /\ code_examples = NoExamples

ExtractContent ==
    /\ prog = "docs" /\ ~extracted.done
    /\ \E titleLen \in TitleLens, mdLen \in MarkdownLens :
         extracted' = DocsExtract(markup, base_url, titleLen, mdLen)
    /\ UNCHANGED <<prog, pc, visited_urls, seleniumVars, docsVars, historyVars, normVars,
                   markup, reportVars, codeVars>>

ExtractPageContentText ==
    /\ prog = "selenium" /\ ~extracted.done
    /\ extracted' = SeleniumExtract(markup)
    /\ UNCHANGED <<prog, pc, visited_urls, seleniumVars, docsVars, historyVars, normVars,
                   markup, reportVars, codeVars>>

ExtractNext == ExtractContent \/ ExtractPageContentText

ExtractSpec == ExtractInit /\ [][ExtractNext]_vars

(***************************************************************************)
(* The Markdown report of save_results on its own: a list of Documents is  *)
(* handed to it.                                                           *)
(***************************************************************************)
\* content_preview = doc['content'][:2000]
PreviewLen == 2000

\* page titles (driver.title) and the lengths of the content of a Document
Titles == {"Overview", "Order Flow", "OnBarUpdate()"}
ContentLens == {PreviewLen - 1, PreviewLen, PreviewLen + 1}

\* the Documents as the report uses them, and the lists of them
ReportDocuments == [title : Titles, contentLen : ContentLens]
DocumentLists == UNION {[1..n -> ReportDocuments] : n \in 0..MaxDocs}

\* an entry of the table of contents:
\*   f"{i}. [{doc['title']}](#{i}-{doc['title'].lower().replace(' ', '-')})"
TocEntry(i, doc) ==
    [index  |-> i,
     title  |-> doc.title,
     anchor |-> Str(i) \o "-" \o Replace(Lower(doc.title), " ", "-")]

\* the text of the heading of a section: f"## {i}. {doc['title']}"
SectionHeading(i, doc) == Str(i) \o ". " \o doc.title

\* a preview that is marked as truncated from 2000 characters on
ContentPreviewMarkedAtLimit(doc) ==
    [start     |-> 0,
     chars     |-> IF doc.contentLen < PreviewLen THEN doc.contentLen ELSE PreviewLen,
     truncated |-> doc.contentLen >= PreviewLen]

\* the preview of the content: where the slice doc['content'][:2000] starts
\* in the content, the number of characters it takes, and whether "[Content truncated]" is
\* appended
ContentPreview(doc) ==
    [start     |-> 0,
     chars     |-> IF doc.contentLen < PreviewLen THEN doc.contentLen ELSE PreviewLen,
     truncated |-> doc.contentLen > PreviewLen]

\* the section of a Document
Section(i, doc) == [heading |-> SectionHeading(i, doc), preview |-> ContentPreview(doc)]

\* the Markdown file save_results writes for content_data
MarkdownReport(docs) ==
    [written  |-> TRUE,
     total    |-> Len(docs),
     toc      |-> [i \in 1..Len(docs) |-> TocEntry(i, docs[i])],
     sections |-> [i \in 1..Len(docs) |-> Section(i, docs[i])]]

ReportInit ==
    /\ CrawlInit
    /\ prog = "selenium" /\ max_pages = 0
    /\ raw_urls = <<>> /\ cleaned_urls = <<>> /\ recleaned_urls = <<>>
    /\ markup = NoMarkup
    /\ extracted = NoExtract
    /\ documents \in DocumentLists
    /\ report = NoReport
    /\ code_elements = <<>>
    /\ code_examples = NoExamples

\* save_results writes the Markdown report
SaveMarkdown ==
    /\ ~report.written
    /\ report' = MarkdownReport(documents)
    /\ UNCHANGED <<prog, pc, visited_urls, seleniumVars, docsVars, historyVars, normVars,
                   extractVars, documents, codeVars>>

ReportNext == SaveMarkdown

ReportSpec == ReportInit /\ [][ReportNext]_vars

(***************************************************************************)
(* The collection of the code examples on its own: the code-bearing        *)
(* elements of one page are handed to the loop of extract_page_content     *)
(* (Selenium scraper) or of extract_documentation_content (API scraper).   *)
(***************************************************************************)
\* "len(code_text) > 10"
MinCodeLen == 10

\* the lengths of the trimmed text of a code-bearing element, and the lists
\* of them a page can hold
CodeLens == {0, MinCodeLen - 1, MinCodeLen, MinCodeLen + 1}
CodeElementLists == UNION {[1..n -> CodeLens] : n \in 0..MaxCodeElements}

\* an entry of code_examples: the element it is the text of, and its length
CodeExample(elements, i) == [element |-> i, len |-> elements[i]]

\* extract_page_content, from element i on:
\*   if code_text and len(code_text) > 10: code_examples.append(code_text)
RECURSIVE SeleniumCodeExamples(_, _)
SeleniumCodeExamples(elements, i) ==
    IF i > Len(elements) THEN <<>>
    ELSE (IF elements[i] # 0 /\ elements[i] > MinCodeLen
          THEN <<CodeExample(elements, i)>> ELSE <<>>)
         \o SeleniumCodeExamples(elements, i + 1)

\* extract_documentation_content, from element i on:
\*   code_blocks.append(block.get_text(strip=True))
RECURSIVE ApiCodeBlocks(_, _)
ApiCodeBlocks(elements, i) ==
    IF i > Len(elements) THEN <<>>
    ELSE <<CodeExample(elements, i)>> \o ApiCodeBlocks(elements, i + 1)

CodeInit ==
    /\ CrawlInit
    /\ prog = "selenium" /\ max_pages = 0
    /\ raw_urls = <<>> /\ cleaned_urls = <<>> /\ recleaned_urls = <<>>
    /\ markup = NoMarkup
    /\ extracted = NoExtract
    /\ documents = <<>>
    /\ report = NoReport
    /\ code_elements \in CodeElementLists
    /\ code_examples = NoExamples

\* the Selenium scraper collects the code examples of the page
ExtractCodeExamples ==
    /\ code_examples.by = "none"
    /\ code_examples' = [by |-> "selenium", items |-> SeleniumCodeExamples(code_elements, 1)]
    /\ UNCHANGED <<prog, pc, visited_urls, seleniumVars, docsVars, historyVars, normVars,
                   extractVars, reportVars, code_elements>>

\* the API scraper collects the code blocks of the page
ExtractCodeBlocks ==
    /\ code_examples.by = "none"
    /\ code_examples' = [by |-> "api", items |-> ApiCodeBlocks(code_elements, 1)]
    /\ UNCHANGED <<prog, pc, visited_urls, seleniumVars, docsVars, historyVars, normVars,
                   extractVars, reportVars, code_elements>>

CodeNext == ExtractCodeExamples \/ ExtractCodeBlocks

CodeSpec == CodeInit /\ [][CodeNext]_vars

(***************************************************************************)
(* What the claims speak of.                                               *)
(***************************************************************************)
\* the URLs awaiting a visit, with multiplicity: the work set of scrape_site;
\* the pending call of scrape_recursive and the links its frames have yet to
\* take
RECURSIVE FrameLinks(_)
FrameLinks(frames) ==
    IF frames = <<>> THEN EmptyBag
    ELSE LET links == Head(frames).links
         IN  [u \in Range(links) |-> Cardinality({i \in 1..Len(links) : links[i] = u})]
             (+) FrameLinks(Tail(frames))

FrontierBag ==
    IF prog = "selenium" THEN SetToBag(urls_to_visit)
    ELSE (IF call.active THEN SetToBag({call.url}) ELSE EmptyBag) (+) FrameLinks(stack)

Frontier == BagToSet(FrontierBag)

\* the URLs for which a Document (a section of the output file) exists
DocumentUrls ==
    IF prog = "selenium" THEN {content_data[i].url : i \in 1..Len(content_data)}
    ELSE Range(output_file) \ {"header"}

\* this step requested a page and the request failed
FailedFetchStep == requests' # requests /\ last'.outcome \in FetchFailures

(***************************************************************************)
(* C1.  In either crawl loop no URL passes the visited check, and is then  *)
(* added to the visited set, fetched and extracted, more than once,        *)
(* whatever the links of the pages are.                                    *)
(***************************************************************************)
C1_NoUrlProcessedTwice == \A u \in BagToSet(processed) : CopiesIn(u, processed) = 1

\* scrape_recursive is called on a URL an earlier call has processed: two
\* pages linked to it before it was visited
C1_Witness ==
    /\ prog = "docs" /\ call.active
    /\ call.depth <= max_depth
    /\ call.url \in visited_urls
    /\ CopiesIn(call.url, processed) = 1

(***************************************************************************)
(* C2.  In every state of scrape_site(max_pages) the visited set holds at  *)
(* most max_pages URLs.                                                    *)
(***************************************************************************)
C2_VisitedWithinMaxPages == prog = "selenium" => Cardinality(visited_urls) <= max_pages

\* the loop has ended on the page cap with URLs still waiting
C2_Witness ==
    /\ prog = "selenium" /\ pc = "scraped"
    /\ max_pages > 0
    /\ Cardinality(visited_urls) = max_pages
    /\ urls_to_visit # {}

(***************************************************************************)
(* C3.  Whenever the fetch of a URL fails (timeout, network failure, HTTP  *)
(* error status) the URL is in the failed-URL set and has no Document.     *)
(***************************************************************************)
C3_FailedFetchRecorded ==
    (prog = "selenium" /\ last.outcome \in FetchFailures) =>
        /\ last.url \in failed_urls
        /\ last.url \notin DocumentUrls

(***************************************************************************)
(* C4.  When the fetch of a URL u fails, the step discovers and enqueues   *)
(* no link: the frontier after it is the frontier before it minus u.       *)
(***************************************************************************)
C4_FailedFetchEnqueuesNothing ==
    [][FailedFetchStep => FrontierBag' = FrontierBag (-) SetToBag({last'.url})]_vars

(***************************************************************************)
(* C5.  A fetch or extraction failure on one page never aborts the run:    *)
(* after a step whose fetch failed, or which produced no Document, the     *)
(* crawl is still running; a URL leaves the frontier only when it is       *)
(* processed or a cap keeps it out, whatever failed in the meantime; and   *)
(* the run comes to an end at which no URL waits in the frontier but for   *)
(* a cap or the user's cancelling.  So every pending URL is eventually     *)
(* processed, subject to the depth and page caps.                          *)
(***************************************************************************)
\* this step requested a page and produced no Document for it
NoDocumentStep == requests' # requests /\ DocumentUrls' = DocumentUrls

\* u has been processed, or a cap keeps it out: the page cap has been
\* reached, the call for u is beyond the depth cap; or the run was cancelled
Settled(u) ==
    \/ u \in visited_urls
    \/ prog = "selenium" /\ Cardinality(visited_urls) >= max_pages
    \/ prog = "docs" /\ call.active /\ call.url = u /\ call.depth > max_depth
    \/ interrupted /\ pc = "done"

\* the run has ended
Ended == pc \in {"scraped", "done"}

C6_InterruptSavesDocuments ==
    /\ [][interrupted => requests' = requests]_vars
    /\ []((interrupted /\ pc = "done") =>
            (json_file.exists /\ json_file.docs = content_data))

(***************************************************************************)
(* C7.  Every URL that is enqueued, visited or has a Document has the      *)
(* configured host and a path containing /docs/.                           *)
(***************************************************************************)
\* the host of the configured domain
DomainHost == UrlParse(domain).netloc

InScope(url) ==
    /\ UrlParse(url).netloc = DomainHost
    /\ Contains(UrlParse(url).path, "/docs/")

inScope == [u \in Universe |-> InScope(u)] @@ <<>>

C7_UrlsWithinDomainAndPrefix ==
    \A u \in Frontier \cup visited_urls \cup DocumentUrls : inScope[u]

(***************************************************************************)
(* C8.  A link whose path ends in .pdf, .zip, .exe, .dmg, .png, .jpg or    *)
(* .gif, whatever query or fragment follows the path, is never in the      *)
(* visited set or in the failed-URL set.                                   *)
(***************************************************************************)
BinaryExtensions == {".pdf", ".zip", ".exe", ".dmg", ".png", ".jpg", ".gif"}

HasBinaryExtension(url) == \E ext \in BinaryExtensions : EndsWith(UrlParse(url).path, ext)

hasBinaryExtension == [u \in Universe |-> HasBinaryExtension(u)] @@ <<>>

C8_BinaryLinksNeverVisited ==
    \A u \in visited_urls \cup failed_urls : ~hasBinaryExtension[u]

(***************************************************************************)
(* C9.  In every state of a crawl no URL of the visited set or of the      *)
(* frontier contains a fragment.                                           *)
(***************************************************************************)
hasFragment == [u \in Universe |-> Contains(u, "#")] @@ <<>>

C9_NoFragmentInVisitedOrFrontier ==
    \A u \in visited_urls \cup Frontier : ~hasFragment[u]

(***************************************************************************)
(* C10.  clean_url strips only the fragment: the query string of a URL is  *)
(* the query string of its cleaned form, and two URLs that differ only in  *)
(* their query string have two distinct cleaned forms.                     *)
(***************************************************************************)
DifferOnlyInQuery(u, v) ==
    /\ UrlParse(u).query # UrlParse(v).query
    /\ [UrlParse(u) EXCEPT !.query = ""] = [UrlParse(v) EXCEPT !.query = ""]

C10_CleanUrlPreservesQuery ==
    cleaned_urls # <<>> =>
        /\ \A i \in 1..2 : UrlParse(cleaned_urls[i]).query = UrlParse(raw_urls[i]).query
        /\ DifferOnlyInQuery(raw_urls[1], raw_urls[2]) => cleaned_urls[1] # cleaned_urls[2]

(***************************************************************************)
(* C11.  clean_url is idempotent: cleaning a cleaned URL gives the cleaned *)
(* URL again.                                                              *)
(***************************************************************************)
C11_CleanUrlIdempotent == recleaned_urls # <<>> => recleaned_urls = cleaned_urls

\* a URL with a query and a fragment has been cleaned, and cleaned again
C11_Witness ==
    /\ recleaned_urls # <<>>
    /\ UrlParse(raw_urls[1]).query # "" /\ UrlParse(raw_urls[1]).fragment # ""
    /\ cleaned_urls[1] # raw_urls[1]

(***************************************************************************)
(* C12.  Two URLs that differ only in their fragment have the same cleaned *)
(* form, and it is the URL with its fragment removed and nothing else      *)
(* changed.                                                                *)
(***************************************************************************)
DifferOnlyInFragment(u, v) ==
    /\ UrlParse(u).fragment # UrlParse(v).fragment
    /\ [UrlParse(u) EXCEPT !.fragment = ""] = [UrlParse(v) EXCEPT !.fragment = ""]

\* the URL up to its "#"
WithoutFragment(url) ==
    IF Contains(url, "#") THEN Slice(url, 1, Find(url, "#") - 1) ELSE url

C12_FragmentEquivalence ==
    (cleaned_urls # <<>> /\ DifferOnlyInFragment(raw_urls[1], raw_urls[2])) =>
        /\ cleaned_urls[1] = cleaned_urls[2]
        /\ cleaned_urls[1] = WithoutFragment(raw_urls[1])

(***************************************************************************)
(* C13.  With the minimum-content threshold T, a page whose extracted text *)
(* has exactly T-1 characters produces no Document and a page whose        *)
(* extracted text has exactly T characters produces one.                   *)
(***************************************************************************)
C13_ThresholdBoundary ==
    extracted.done =>
        /\ extracted.textLen = MinContentLen - 1 => ~extracted.document
        /\ extracted.textLen = MinContentLen => extracted.document

(***************************************************************************)
(* C14.  extract_content discards a page only if no stage of the cascade   *)
(* (the semantic selectors, the largest text block, the body) yields       *)
(* qualifying text.  A text longer than the threshold qualifies on any     *)
(* reading of the threshold.                                               *)
(***************************************************************************)
Stages == {"main", "article", "div", "body"}

Qualifies(block) == block.present /\ block.textLen > MinContentLen

C14_DiscardedOnlyIfNoStageQualifies ==
    (prog = "docs" /\ extracted.done /\ ~extracted.section) =>
        \A stage \in Stages : ~Qualifies(markup[stage])

(***************************************************************************)
(* C15.  When the page has a qualifying semantic container, the extracted  *)
(* content is the content of such a container, whatever larger             *)
(* non-semantic block the page has.                                        *)
(***************************************************************************)
SemanticContainers == {"main", "article"}

C15_QualifyingContainerIsUsed ==
    (extracted.done /\ \E c \in SemanticContainers : Qualifies(markup[c])) =>
        /\ extracted.source \in SemanticContainers
        /\ Qualifies(markup[extracted.source])

(***************************************************************************)
(* C16.  When a page is fetched successfully and the extraction gives no   *)
(* Document, the links of the page are discovered all the same: after the  *)
(* step every link of the page that passes the link filter and is          *)
(* unvisited is in the frontier.                                           *)
(***************************************************************************)
\* this step fetched a page successfully and produced no Document for it
EmptyStep ==
    /\ requests' # requests
    /\ last'.outcome = "ok"
    /\ last'.url \notin DocumentUrls'

C16_EmptyPageLinksEnqueued == [][EmptyStep => last'.emptyLinks \subseteq Frontier']_vars

\* a page gave no Document and its links wait in the frontier
C16_Witness ==
    /\ last.outcome = "ok"
    /\ last.url \notin DocumentUrls
    /\ last.emptyLinks # {}
    /\ last.emptyLinks \subseteq Frontier

(***************************************************************************)
(* C17.  On a finite site, cycles included, with every fetch returning a   *)
(* result or an error, the crawl terminates; and when scrape_site has      *)
(* returned normally, the frontier is empty or the visited set has         *)
(* reached max_pages.                                                      *)
(***************************************************************************)
C17_CrawlTerminates ==
    /\ <>Ended
    /\ []((prog = "selenium" /\ pc = "scraped") =>
            (urls_to_visit = {} \/ Cardinality(visited_urls) >= max_pages))

\* scrape_site has returned below the page cap, having run out of unvisited
\* links
C17_Witness ==
    /\ prog = "selenium" /\ pc = "scraped"
    /\ urls_to_visit = {}
    /\ visited_urls # {}
    /\ Cardinality(visited_urls) < max_pages

(***************************************************************************)
(* C18.  Between any two consecutive page requests of a crawl run a        *)
(* politeness sleep occurs: a step issues one request at most, and a       *)
(* request other than the first of the run follows a sleep.                *)
(***************************************************************************)
C18_SleepBetweenRequests ==
    [][requests' # requests =>
         /\ BagCardinality(requests') = BagCardinality(requests) + 1
         /\ requests = EmptyBag \/ slept]_vars

(***************************************************************************)
(* C19.  In save_results a failure while writing one artifact does not     *)
(* prevent the others from being written: when the run has ended after a   *)
(* call of save_results, every artifact but the one whose write failed     *)
(* has been written.                                                       *)
(***************************************************************************)
Written(artifact) ==
    CASE artifact = "json" -> json_file.exists
      [] artifact = "md" -> md_file.exists
      [] artifact = "failed_urls" -> failed_urls = {} \/ failed_file.exists

C19_WriteFailureIsolated ==
    (pc = "done" /\ save.attempted) =>
        \A artifact \in Artifacts \ {save.failing} : Written(artifact)

(***************************************************************************)
(* C20.  The frontier never holds a URL twice and never holds a URL that   *)
(* is already in the visited set.                                          *)
(***************************************************************************)
C20_FrontierDisjointAndDuplicateFree ==
    \A u \in Frontier : CopiesIn(u, FrontierBag) = 1 /\ u \notin visited_urls

(***************************************************************************)
(* C21.  The output of scrape_all/scrape_recursive is written              *)
(* incrementally: the output file begins with the header, and every step   *)
(* that visits a page with qualifying content appends the section of that  *)
(* page to the file at once, while no other step changes the file; so at   *)
(* every point the file holds the header and the sections of the visited   *)
(* pages with qualifying content, in visit order.                          *)
(***************************************************************************)
VisitStep == processed' # processed

AnchorChars == "abcdefghijklmnopqrstuvwxyz0123456789-_ "

RECURSIVE KeepChars(_, _)
KeepChars(s, chars) ==
    IF Len(s) = 0 THEN ""
    ELSE (IF Contains(chars, Slice(s, 1, 1)) THEN Slice(s, 1, 1) ELSE "")
         \o KeepChars(From(s, 2), chars)

HeadingAnchor(heading) == Replace(KeepChars(Lower(heading), AnchorChars), " ", "-")

C22_TocMatchesSections ==
    report.written =>
        /\ Len(report.toc) = Len(documents)
        /\ Len(report.sections) = Len(documents)
        /\ \A i \in 1..Len(documents) :
              /\ report.toc[i].index = i
              /\ report.toc[i].title = documents[i].title
              /\ report.toc[i].anchor = HeadingAnchor(report.sections[i].heading)

(***************************************************************************)
(* C23.  scrape_recursive never processes (marks visited, fetches) a URL   *)
(* at a traversal depth greater than max_depth: the seed has depth 0 and a *)
(* link the depth of the page it was found on plus 1, so the depth of a    *)
(* call is the number of calls of scrape_recursive it is nested in, each   *)
(* of which carries the depth of its own place in the nesting.             *)
(***************************************************************************)
C23_DepthWithinMaxDepth ==
    /\ [](prog = "docs" => \A i \in 1..Len(stack) : stack[i].depth = Len(stack) - i)
    /\ [][(prog = "docs" /\ (VisitStep \/ requests' # requests)) =>
            Len(stack) <= max_depth]_vars

\* a page at depth max_depth, below the seed, has been processed and is in
\* its for loop, whose links are one level too deep
C23_Witness ==
    /\ prog = "docs" /\ pc = "running"
    /\ max_depth >= 1
    /\ Len(stack) = max_depth + 1
    /\ Head(stack).links # <<>>

(***************************************************************************)
(* C24.  No URL is requested from the network more than once in a run: one *)
(* retrieval attempt is made for each visited URL, and a URL whose fetch   *)
(* failed is not fetched again.                                            *)
(***************************************************************************)
C24_SingleRequestPerUrl ==
    /\ BagToSet(requests) \subseteq visited_urls
    /\ \A u \in BagToSet(requests) : CopiesIn(u, requests) = 1

(***************************************************************************)
(* C25.  In the Markdown report the text preview of each Document is the   *)
(* first min(len(text), 2000) characters of its text, and the truncation   *)
(* marker is present if and only if len(text) > 2000.                      *)
(***************************************************************************)
Min(a, b) == IF a <= b THEN a ELSE b

C25_PreviewBounded ==
    report.written =>
        \A i \in 1..Len(documents) :
            /\ report.sections[i].preview.start = 0
            /\ report.sections[i].preview.chars = Min(documents[i].contentLen, 2000)
            /\ report.sections[i].preview.truncated <=> documents[i].contentLen > 2000

\* a report with a Document of exactly 2000 characters, written whole, and a
\* longer one, clipped and marked
C25_Witness ==
    /\ report.written
    /\ \E i, j \in 1..Len(documents) :
          /\ documents[i].contentLen = 2000 /\ ~report.sections[i].preview.truncated
          /\ documents[j].contentLen > 2000 /\ report.sections[j].preview.truncated

(***************************************************************************)
(* C26.  The code_examples of a Document are, in document order, exactly   *)
(* the trimmed texts of the code-bearing elements of the page whose length *)
(* is at least 10 characters: shorter entries are discarded, entries of    *)
(* exactly 10 characters are kept.                                         *)
(***************************************************************************)
C26_CodeExamplesAtLeastMinLen ==
    code_examples.by # "none" =>
        LET items == code_examples.items
        IN  /\ \A k \in 1..Len(items) :
                  /\ items[k].element \in 1..Len(code_elements)
                  /\ items[k].len = code_elements[items[k].element]
                  /\ items[k].len >= 10
            /\ \A i \in 1..Len(code_elements) :
                  code_elements[i] >= 10 => \E k \in 1..Len(items) : items[k].element = i
            /\ \A k, l \in 1..Len(items) : k < l => items[k].element < items[l].element

(***************************************************************************)
(* C27.  In every reachable state of scrape_site every Document's url is   *)
(* in visited_urls and not in failed_urls, and no two Documents of         *)
(* content_data have the same url.                                         *)
(***************************************************************************)
C27_DocumentsVisitedNotFailedDistinct ==
    prog = "selenium" =>
        /\ \A i \in 1..Len(content_data) :
              /\ content_data[i].url \in visited_urls
              /\ content_data[i].url \notin failed_urls
        /\ \A i, j \in 1..Len(content_data) :
              content_data[i].url = content_data[j].url => i = j

\* a Document has been made of one page and the load of another page failed
C27_Witness ==
    /\ prog = "selenium"
    /\ content_data # <<>>
    /\ failed_urls # {}
    /\ Cardinality(visited_urls) >= 2

(***************************************************************************)
(* C28.  When scrape_recursive completes with no fetch failure, every      *)
(* in-scope URL that a chain of at most max_depth links reaches from the   *)
(* seed has been visited, whatever the order in which the links were       *)
(* followed.                                                               *)
(***************************************************************************)
\* the links of the page at url, as the scraper saw them
LinksOf(url) == UNION {r.links : r \in {q \in site : q.url = url}}

\* the URLs a chain of at most d links reaches from the seed
RECURSIVE ReachableWithin(_)
ReachableWithin(d) ==
    IF d = 0 THEN {clean_url[base_url]}
    ELSE ReachableWithin(d - 1) \cup UNION {LinksOf(u) : u \in ReachableWithin(d - 1)}

C28_ReachableWithinDepthVisited ==
    (prog = "docs" /\ pc = "done" /\ \A r \in site : r.ok) =>
        ReachableWithin(max_depth) \subseteq visited_urls

(***************************************************************************)
(* C29.  Once start_driver has succeeded, scrape_site closes the browser   *)
(* driver on every exit path (the end of the loop, an exception or a user  *)
(* interrupt in the loop), and no page load is issued after the driver is  *)
(* closed.                                                                 *)
(***************************************************************************)
C29_DriverClosedOnEveryExit ==
    /\ [](prog = "selenium" =>
            /\ pc = "running" => driver = "open"
            /\ (pc \in {"scraped", "save_failed", "done"} /\ driver # "none") =>
                   driver = "closed")
    /\ [][driver = "closed" => (driver' = "closed" /\ requests' = requests)]_vars

\* scrape_site was left by a Ctrl-C after a page load, and the driver is
\* closed
C29_Witness ==
    /\ prog = "selenium" /\ pc = "done"
    /\ interrupted
    /\ requests # EmptyBag
    /\ driver = "closed"

(***************************************************************************)
(* C30.  The visited set outlives a run: after scrape_all has completed on *)
(* a scraper instance, a second scrape_all on the same instance fetches no *)
(* page and leaves the output file holding only the header, because the    *)
(* seed is already in visited_urls.                                        *)
(***************************************************************************)
C30_SecondRunFetchesNothing ==
    /\ []((prog = "docs" /\ pc = "done" /\ runs >= 1) => clean_url[base_url] \in visited_urls)
    /\ [](runs >= 2 => output_file = <<"header">>)
    /\ [][runs' >= 2 => (requests' = requests /\ visited_urls' = visited_urls)]_vars

\* the second scrape_all has returned on a scraper whose first run visited
\* two pages and wrote a section
C30_Witness ==
    /\ prog = "docs" /\ pc = "done"
    /\ runs = 2
    /\ Cardinality(visited_urls) >= 2
    /\ last.document

=============================================================================
